---- MODULE Spec2Model ----
(***************************************************************************)
(* Model of org/broadinstitute/hellbender/gatktool/tool.py: the Python     *)
(* side of the two-FIFO protocol between GATK (the host) and a Python      *)
(* worker.  The worker writes "ack"/"nck" tokens on the ack FIFO and reads *)
(* newline-terminated lines from the data FIFO.                            *)
(*                                                                         *)
(* Modelling decisions:                                                    *)
(*  - Python runs with assertions enabled (no -O), as GATK starts it.      *)
(*  - The host keeps its read end of the ack FIFO open while the worker    *)
(*    holds a writer, so write()/flush() of a token does not fail.         *)
(*  - An object that becomes unreachable (an AckFIFO/DataFIFO replaced in  *)
(*    the module global without close()) is finalised at a time the Python *)
(*    runtime chooses: at once (reference counting) or later, or never.    *)
(*  - An uncaught exception of a command reaches sys.excepthook, and the   *)
(*    interpreter then goes on to the next command.                        *)
(***************************************************************************)
EXTENDS Integers, Sequences, FiniteSets, TLC

\* ---------------------------------------------------------------- bounds
MaxLeaked == 1   \* unreachable channel objects the runtime has not yet finalised
MaxTokens == 2   \* tokens written on the ack FIFO in one run
MaxLines  == 2   \* lines the host writes while one data channel is open

\* ------------------------------------------------------------- constants
TokenLen == 3

None == [type |-> "NoneType"]

\* AckFIFO._ackString / AckFIFO._nackString, as character sequences
_ackString  == <<"a", "c", "k">>
_nackString == <<"n", "c", "k">>

NL == "\n"

\* paths the host may hand to the worker; MissingPath names no pipe
AckPath     == "/tmp/ack1"
DataPath    == "/tmp/data1"
MissingPath == "/tmp/missing"

\* bodies of the lines the host writes (without the terminating newline)
LineBodies == {<<>>, <<"A">>}

VARIABLES
    _ackFIFO,      \* module global: None or an AckFIFO object
    _dataFIFO,     \* module global: None or a DataFIFO object
    excepthook,    \* sys.excepthook: "default" or "gatkExceptionHook"
    leakedWriters, \* open ack writers of AckFIFO objects no longer referenced
    leakedReaders, \* open data readers of DataFIFO objects no longer referenced
    ackPipe,       \* every character flushed to the ack FIFO, in order
    hostRead,      \* number of characters of ackPipe the host has read
    wire,          \* the characters the data FIFO held when the current data
                   \* channel was opened, then those the host wrote since, in order
    pipePos,       \* number of characters of wire already taken out of the pipe
    hostClosed,    \* the host closed its write end of the data FIFO
    pc,            \* "idle", "ran" (command completed, not acknowledged), "uncaught"
    exc,           \* the exception propagating while pc = "uncaught"
    op,            \* the command most recently started (a module function, or "command")
    cmdBase,       \* Len(ackPipe) when the current command started
    stderr,        \* reports of the unhandled error of the current command
    sessionReads   \* values returned by readDataFIFO on the current data channel

vars == <<_ackFIFO, _dataFIFO, excepthook, leakedWriters, leakedReaders, ackPipe, hostRead, wire,
          pipePos, hostClosed, pc, exc, op, cmdBase, stderr, sessionReads>>

ackVars  == <<_ackFIFO, excepthook, ackPipe>>
dataVars == <<_dataFIFO, wire, pipePos, sessionReads>>
hostVars == <<hostRead, hostClosed>>

\* ------------------------------------------------------------ os / io
\* os.open(path, flags): succeeds iff the named pipe exists
OpenSucceeds(path) == path # MissingPath

\* number of ack writers / data readers open in the process
OpenWriters == leakedWriters + (IF _ackFIFO = None THEN 0 ELSE 1)
OpenReaders == leakedReaders + (IF _dataFIFO = None THEN 0 ELSE 1)

\* rebinding a module global drops the last reference to the object `old` it
\* held: the runtime closes that object's file at once (collect), or the
\* file stays open until the object is finalised
Dropped(leaked, old, collect) ==
    IF old = None \/ collect THEN leaked ELSE leaked + 1

\* the rebinding is within the model's bound on unfinalised objects
WithinLeakBound(old, collect) ==
    old = None \/ collect \/ leakedWriters + leakedReaders < MaxLeaked

\* ------------------------------------------------------------ class AckFIFO
\* AckFIFO.__init__: the object holding the writer opened on the pipe
AckFIFO(ackFIFOName) ==
    [type |-> "AckFIFO", ackFIFOName |-> ackFIFOName, fileWriter |-> "open"]

\* faulty variant: writeAck writes the nack string
writeAck_wrongToken(pipe) == pipe \o _nackString

\* AckFIFO.writeAck: write(_ackString) and flush(); the pipe afterwards
writeAck(pipe) == pipe \o _ackString

\* faulty variant: writeNack writes the four characters "nack"
writeNack_fourChars(pipe) == pipe \o <<"n", "a", "c", "k">>

\* AckFIFO.writeNack: write(_nackString) and flush(); the pipe afterwards
writeNack(pipe) == pipe \o _nackString

\* ------------------------------------------------------------ class DataFIFO
\* DataFIFO.__init__: the object holding the reader opened on the pipe
DataFIFO(dataFIFOName) ==
    [type |-> "DataFIFO", dataFIFOName |-> dataFIFOName, fileReader |-> "open",
     buffer |-> <<>>]

HasNL(s) == \E i \in 1..Len(s) : s[i] = NL

FirstNL(s) == CHOOSE i \in 1..Len(s) : s[i] = NL /\ \A j \in 1..(i - 1) : s[j] # NL

\* faulty variant: the line is returned without its terminating newline
readLine_stripped(buffer, avail, eof) ==
    LET b2 == IF HasNL(buffer) THEN buffer ELSE buffer \o avail
        n  == IF HasNL(buffer) THEN 0 ELSE Len(avail)
    IN IF HasNL(b2)
       THEN [blocked |-> FALSE, line |-> SubSeq(b2, 1, FirstNL(b2) - 1),
             buffer |-> SubSeq(b2, FirstNL(b2) + 1, Len(b2)), taken |-> n]
       ELSE [blocked |-> ~eof, line |-> b2, buffer |-> <<>>, taken |-> n]

\* faulty variant: end of stream is reported as an empty line ("\n")
readLine_eofNewline(buffer, avail, eof) ==
    LET b2 == IF HasNL(buffer) THEN buffer ELSE buffer \o avail
        n  == IF HasNL(buffer) THEN 0 ELSE Len(avail)
    IN IF HasNL(b2)
       THEN [blocked |-> FALSE, line |-> SubSeq(b2, 1, FirstNL(b2)),
             buffer |-> SubSeq(b2, FirstNL(b2) + 1, Len(b2)), taken |-> n]
       ELSE [blocked |-> ~eof, line |-> b2 \o <<NL>>, buffer |-> <<>>, taken |-> n]

\* DataFIFO.readLine -> fileReader.readline(): with `buffer` the reader's
\* decoded-but-unreturned text, `avail` what the pipe holds and `eof` whether the
\* writer has closed.  A line already buffered is returned without touching
\* the pipe; otherwise the reader takes what the pipe holds and returns up to
\* and including the first newline, or the remainder at end of stream, or
\* blocks.
readLine(buffer, avail, eof) ==
    IF HasNL(buffer)
    THEN [blocked |-> FALSE, line |-> SubSeq(buffer, 1, FirstNL(buffer)),
          buffer |-> SubSeq(buffer, FirstNL(buffer) + 1, Len(buffer)), taken |-> 0]
    ELSE LET b2 == buffer \o avail IN
         IF HasNL(b2)
         THEN [blocked |-> FALSE, line |-> SubSeq(b2, 1, FirstNL(b2)),
               buffer |-> SubSeq(b2, FirstNL(b2) + 1, Len(b2)), taken |-> Len(avail)]
         ELSE IF eof
         THEN [blocked |-> FALSE, line |-> b2, buffer |-> <<>>, taken |-> Len(avail)]
         ELSE [blocked |-> TRUE, line |-> <<>>, buffer |-> b2, taken |-> Len(avail)]

\* readDataFIFO calls modelled on one open data channel: every line and two
\* reads at end of stream
MaxReads == MaxLines + 2

\* what the data pipe currently holds
Avail == SubSeq(wire, pipePos + 1, Len(wire))

\* ------------------------------------------------------------ commands
TypeOK ==
    /\ excepthook \in {"default", "gatkExceptionHook"}
    /\ leakedWriters \in 0..MaxLeaked
    /\ leakedReaders \in 0..MaxLeaked
    /\ pc \in {"idle", "ran", "uncaught"}
    /\ hostRead \in 0..Len(ackPipe)
    /\ pipePos \in 0..Len(wire)
    /\ hostClosed \in BOOLEAN
    /\ cmdBase \in 0..Len(ackPipe)

Init ==
    /\ _ackFIFO = None
    /\ _dataFIFO = None
    /\ excepthook = "default"
    /\ leakedWriters = 0
    /\ leakedReaders = 0
    /\ ackPipe = <<>>
    /\ hostRead = 0
    /\ wire = <<>>
    /\ pipePos = 0
    /\ hostClosed = FALSE
    /\ pc = "idle"
    /\ exc = ""
    /\ op = ""
    /\ cmdBase = 0
    /\ stderr = <<>>
    /\ sessionReads = <<>>

\* the interpreter takes the next command line from the host, which sends
\* one only when it is not waiting for a token (lock-step)
StartCommand(name) ==
    /\ pc \in {"idle", "ran"}
    /\ hostRead = Len(ackPipe)
    /\ Len(ackPipe) < TokenLen * MaxTokens
    /\ op' = name
    /\ cmdBase' = Len(ackPipe)
    /\ stderr' = <<>>

\* the command's call returned normally
Return == pc' = "ran" /\ exc' = ""

\* an exception of type e propagates out of the command
Raise(e) == pc' = "uncaught" /\ exc' = e

\* faulty variant: the hook is installed before the FIFO is opened
onTraversalStart_hookFirst(ackFIFOName, collect) ==
    /\ StartCommand("onTraversalStart")
    /\ excepthook' = "gatkExceptionHook"
    /\ IF OpenSucceeds(ackFIFOName)
       THEN /\ WithinLeakBound(_ackFIFO, collect)
            /\ _ackFIFO' = [type |-> "AckFIFO", ackFIFOName |-> ackFIFOName,
                            fileWriter |-> "open"]
            /\ leakedWriters' = Dropped(leakedWriters, _ackFIFO, collect)
            /\ Return
       ELSE /\ Raise("OSError")
            /\ UNCHANGED <<_ackFIFO, leakedWriters>>
    /\ UNCHANGED <<ackPipe, leakedReaders, dataVars, hostVars>>

onTraversalStart(ackFIFOName, collect) ==
    /\ StartCommand("onTraversalStart")
    /\ IF OpenSucceeds(ackFIFOName)
       THEN /\ WithinLeakBound(_ackFIFO, collect)
            /\ _ackFIFO' = AckFIFO(ackFIFOName)
            /\ leakedWriters' = Dropped(leakedWriters, _ackFIFO, collect)
            /\ excepthook' = "gatkExceptionHook"
            /\ Return
       ELSE /\ Raise("OSError")
            /\ UNCHANGED <<_ackFIFO, leakedWriters, excepthook>>
    /\ UNCHANGED <<ackPipe, leakedReaders, dataVars, hostVars>>

\* faulty variant: the nack string is written twice
sendNackTo_twice(pipe) == writeNack(writeNack(pipe))

\* faulty variant: sendNack returns without writing
sendNackTo_silent(pipe) == pipe

\* sendNack as gatkExceptionHook calls it: the pipe after _ackFIFO.writeNack()
sendNackTo(pipe) == writeNack(pipe)

\* faulty variant: the hook chains to the default handler before it sends the nack
gatkExceptionHook_defaultFirst(pipe, log, e) ==
    [pipe |-> sendNackTo(pipe),
     log  |-> Append(log, [via |-> "__excepthook__", exc |-> e,
                           written |-> Len(pipe)])]

\* gatkExceptionHook(type, value, traceback) with the ack FIFO present:
\* sendNack(), then sys.__excepthook__; the pipe and the error reports afterwards
gatkExceptionHook(pipe, log, e) ==
    LET nacked == sendNackTo(pipe)
    IN [pipe |-> nacked,
        log  |-> Append(log, [via |-> "__excepthook__", exc |-> e,
                              written |-> Len(nacked)])]

\* the interpreter hands the uncaught exception to sys.excepthook
ExceptHook ==
    /\ pc = "uncaught"
    /\ IF excepthook = "gatkExceptionHook"
       THEN IF _ackFIFO = None
            THEN \* sendNack raises AttributeError inside the hook: nothing is
                 \* written, line 46 is not reached, the interpreter reports
                 \* both errors itself
                 /\ stderr' = Append(stderr, [via |-> "Error in sys.excepthook",
                                              exc |-> exc, written |-> Len(ackPipe)])
                 /\ UNCHANGED ackPipe
            ELSE LET r == gatkExceptionHook(ackPipe, stderr, exc)
                 IN ackPipe' = r.pipe /\ stderr' = r.log
       ELSE /\ stderr' = Append(stderr, [via |-> "__excepthook__", exc |-> exc,
                                         written |-> Len(ackPipe)])
            /\ UNCHANGED ackPipe
    /\ pc' = "idle"
    /\ exc' = ""
    /\ UNCHANGED <<_ackFIFO, excepthook, leakedWriters, leakedReaders, dataVars, hostVars, op, cmdBase>>

sendAck ==
    /\ pc \in {"idle", "ran"}
    /\ IF pc = "idle"
       THEN StartCommand("sendAck")
       ELSE UNCHANGED <<op, cmdBase, stderr>>
    /\ IF _ackFIFO = None
       THEN Raise("AttributeError") /\ UNCHANGED ackPipe
       ELSE /\ ackPipe' = writeAck(ackPipe)
            /\ pc' = "idle"
            /\ exc' = ""
    /\ UNCHANGED <<_ackFIFO, excepthook, leakedWriters, leakedReaders, dataVars, hostVars>>

\* faulty variant: sendNack returns silently when there is no ack channel
sendNack_absentIgnored ==
    /\ StartCommand("sendNack")
    /\ ackPipe' = IF _ackFIFO = None THEN ackPipe ELSE sendNackTo(ackPipe)
    /\ pc' = "idle"
    /\ exc' = ""
    /\ UNCHANGED <<_ackFIFO, excepthook, leakedWriters, leakedReaders, dataVars, hostVars>>

sendNack ==
    /\ StartCommand("sendNack")
    /\ IF _ackFIFO = None
       THEN Raise("AttributeError") /\ UNCHANGED ackPipe
       ELSE /\ ackPipe' = sendNackTo(ackPipe)
            /\ pc' = "idle"
            /\ exc' = ""
    /\ UNCHANGED <<_ackFIFO, excepthook, leakedWriters, leakedReaders, dataVars, hostVars>>

\* faulty variant: onTraversalSuccess restores the default exception hook
onTraversalSuccess_resetsHook ==
    /\ StartCommand("onTraversalSuccess")
    /\ excepthook' = "default"
    /\ Return
    /\ UNCHANGED <<_ackFIFO, ackPipe, leakedWriters, leakedReaders, dataVars, hostVars>>

onTraversalSuccess ==
    /\ StartCommand("onTraversalSuccess")
    /\ Return
    /\ UNCHANGED <<ackVars, leakedWriters, leakedReaders, dataVars, hostVars>>

\* faulty variant: closeTool without the assertion, a no-op on an absent handle
closeTool_noAssert ==
    /\ StartCommand("closeTool")
    /\ _ackFIFO' = None
    /\ Return
    /\ UNCHANGED <<excepthook, ackPipe, leakedWriters, leakedReaders, dataVars, hostVars>>

\* faulty variant: closeTool restores the default exception hook
closeTool_resetsHook ==
    /\ StartCommand("closeTool")
    /\ IF _ackFIFO # None
       THEN /\ _ackFIFO' = None
            /\ excepthook' = "default"
            /\ Return
       ELSE /\ Raise("AssertionError")
            /\ UNCHANGED <<_ackFIFO, excepthook>>
    /\ UNCHANGED <<ackPipe, leakedWriters, leakedReaders, dataVars, hostVars>>

\* faulty variant: closeTool closes the writer but keeps the global
closeTool_keepsHandle ==
    /\ StartCommand("closeTool")
    /\ IF _ackFIFO # None
       THEN /\ _ackFIFO' = [_ackFIFO EXCEPT !.fileWriter = "None"]
            /\ Return
       ELSE /\ Raise("AssertionError")
            /\ UNCHANGED _ackFIFO
    /\ UNCHANGED <<excepthook, ackPipe, leakedWriters, leakedReaders, dataVars, hostVars>>

\* faulty variant: closeTool clears the data handle as well
closeTool_clearsData ==
    /\ StartCommand("closeTool")
    /\ IF _ackFIFO # None
       THEN /\ _ackFIFO' = None
            /\ _dataFIFO' = None
            /\ Return
       ELSE /\ Raise("AssertionError")
            /\ UNCHANGED <<_ackFIFO, _dataFIFO>>
    /\ UNCHANGED <<excepthook, ackPipe, leakedWriters, leakedReaders, wire,
                   pipePos, sessionReads, hostVars>>

closeTool ==
    /\ StartCommand("closeTool")
    /\ IF _ackFIFO # None
       THEN \* _ackFIFO.close() closes the writer; the global is cleared
            /\ _ackFIFO' = None
            /\ Return
       ELSE /\ Raise("AssertionError")
            /\ UNCHANGED _ackFIFO
    /\ UNCHANGED <<excepthook, ackPipe, leakedWriters, leakedReaders, dataVars, hostVars>>

\* faulty variant: the global is cleared before the new FIFO is opened
initializeDataFIFO_clearedFirst(dataFIFOName, collect) ==
    /\ StartCommand("initializeDataFIFO")
    /\ IF OpenSucceeds(dataFIFOName)
       THEN /\ WithinLeakBound(_dataFIFO, collect)
            /\ _dataFIFO' = DataFIFO(dataFIFOName)
            /\ leakedReaders' = Dropped(leakedReaders, _dataFIFO, collect)
            /\ wire' = Avail
            /\ pipePos' = 0
            /\ sessionReads' = <<>>
            /\ Return
       ELSE /\ Raise("OSError")
            /\ WithinLeakBound(_dataFIFO, collect)
            /\ _dataFIFO' = None
            /\ leakedReaders' = Dropped(leakedReaders, _dataFIFO, collect)
            /\ UNCHANGED <<wire, pipePos, sessionReads>>
    /\ UNCHANGED <<ackVars, leakedWriters, hostVars>>

initializeDataFIFO(dataFIFOName, collect) ==
    /\ StartCommand("initializeDataFIFO")
    /\ IF OpenSucceeds(dataFIFOName)
       THEN /\ WithinLeakBound(_dataFIFO, collect)
            /\ _dataFIFO' = DataFIFO(dataFIFOName)
            /\ leakedReaders' = Dropped(leakedReaders, _dataFIFO, collect)
            /\ wire' = Avail
            /\ pipePos' = 0
            /\ sessionReads' = <<>>
            /\ Return
       ELSE /\ Raise("OSError")
            /\ UNCHANGED <<_dataFIFO, leakedReaders, wire, pipePos, sessionReads>>
    /\ UNCHANGED <<ackVars, leakedWriters, hostVars>>

closeDataFIFO ==
    /\ StartCommand("closeDataFIFO")
    /\ IF _dataFIFO # None
       THEN \* _dataFIFO.close() closes the reader; the global is cleared
            /\ _dataFIFO' = None
            /\ wire' = Avail
            /\ pipePos' = 0
            /\ sessionReads' = <<>>
            /\ Return
       ELSE /\ Raise("AssertionError")
            /\ UNCHANGED <<_dataFIFO, wire, pipePos, sessionReads>>
    /\ UNCHANGED <<ackVars, leakedWriters, leakedReaders, hostVars>>

readDataFIFO ==
    /\ StartCommand("readDataFIFO")
    /\ IF _dataFIFO = None
       THEN /\ Raise("AttributeError")
            /\ UNCHANGED dataVars
       ELSE LET r == readLine(_dataFIFO.buffer, Avail, hostClosed)
            IN /\ Len(sessionReads) < MaxReads
               /\ ~r.blocked
               /\ _dataFIFO' = [_dataFIFO EXCEPT !.buffer = r.buffer]
               /\ pipePos' = pipePos + r.taken
               /\ sessionReads' = Append(sessionReads, r.line)
               /\ UNCHANGED wire
               /\ Return
    /\ UNCHANGED <<ackVars, leakedWriters, leakedReaders, hostVars>>

\* any other command line the host sends: it completes or raises
Command(raises) ==
    /\ StartCommand("command")
    /\ IF raises THEN Raise("Exception") ELSE Return
    /\ UNCHANGED <<ackVars, leakedWriters, leakedReaders, dataVars, hostVars>>

\* the runtime finalises an unreachable AckFIFO/DataFIFO: its file is closed
Finalize ==
    /\ \/ leakedWriters > 0 /\ leakedWriters' = leakedWriters - 1
          /\ UNCHANGED leakedReaders
       \/ leakedReaders > 0 /\ leakedReaders' = leakedReaders - 1
          /\ UNCHANGED leakedWriters
    /\ UNCHANGED <<ackVars, dataVars, hostVars, pc, exc, op, cmdBase, stderr>>

\* ------------------------------------------------------------ host
\* the host's blocking read of one 3-byte token from the ack FIFO
HostReadAck ==
    /\ hostRead + TokenLen <= Len(ackPipe)
    /\ hostRead' = hostRead + TokenLen
    /\ UNCHANGED <<ackVars, leakedWriters, leakedReaders, dataVars, hostClosed,
                   pc, exc, op, cmdBase, stderr>>

LinesWritten == Cardinality({i \in 1..Len(wire) : wire[i] = NL})

\* the host writes one newline-terminated line to the data FIFO
HostWriteLine(body) ==
    /\ ~hostClosed
    /\ LinesWritten < MaxLines
    /\ wire' = wire \o body \o <<NL>>
    /\ UNCHANGED <<ackVars, leakedWriters, leakedReaders, _dataFIFO, pipePos,
                   sessionReads, hostRead, hostClosed, pc, exc, op, cmdBase, stderr>>

\* the host closes its end of the data FIFO
HostCloseData ==
    /\ ~hostClosed
    /\ hostClosed' = TRUE
    /\ UNCHANGED <<ackVars, leakedWriters, leakedReaders, dataVars, hostRead,
                   pc, exc, op, cmdBase, stderr>>

Next ==
    \/ \E p \in {AckPath, MissingPath}, c \in BOOLEAN : onTraversalStart(p, c)
    \/ ExceptHook
    \/ sendAck
    \/ sendNack
    \/ onTraversalSuccess
    \/ closeTool
    \/ \E p \in {DataPath, MissingPath}, c \in BOOLEAN : initializeDataFIFO(p, c)
    \/ closeDataFIFO
    \/ readDataFIFO
    \/ \E r \in BOOLEAN : Command(r)
    \/ Finalize
    \/ HostReadAck
    \/ \E b \in LineBodies : HostWriteLine(b)
    \/ HostCloseData

Spec == Init /\ [][Next]_vars

\* the interpreter runs the hook as soon as an exception is uncaught, and the
\* host sits in its blocking read whenever a token is outstanding
FairSpec == Spec /\ WF_vars(ExceptHook) /\ WF_vars(HostReadAck)

\* ------------------------------------------------------------ properties
\* the characters appended to the ack FIFO since the current command started
Appended == SubSeq(ackPipe, cmdBase + 1, Len(ackPipe))

\* C1: when a command has completed and sendAck is then called with the ack
\* channel open, the call returns and the characters appended to the ack FIFO
\* for that command are exactly one token, "ack" (so no "nck").
C1_SuccessWritesOneAck ==
    [][(pc = "ran" /\ _ackFIFO # None /\ sendAck)
        => /\ pc' = "idle"
           /\ ackPipe' = SubSeq(ackPipe, 1, cmdBase) \o <<"a", "c", "k">>]_vars

\* a command completed, was acknowledged, and its only token is "ack",
\* written after an earlier token
C1_Witness ==
    /\ pc = "idle" /\ op = "command" /\ stderr = <<>>
    /\ cmdBase = TokenLen
    /\ Appended = <<"a", "c", "k">>

\* C2: when a command raises an uncaught error while the ack channel is open,
\* handling that error appends exactly one token, "nck", for the command, and
\* sys.__excepthook__ is invoked once, for the same error, with the nck
\* already written.
C2_UncaughtWritesOneNack ==
    [][(pc = "uncaught" /\ _ackFIFO # None /\ ExceptHook)
        => /\ ackPipe' = SubSeq(ackPipe, 1, cmdBase) \o <<"n", "c", "k">>
           /\ stderr' = <<[via |-> "__excepthook__", exc |-> exc,
                           written |-> cmdBase + TokenLen]>>]_vars

\* a command raised, and the hook wrote the nck and chained to the default
C2_Witness ==
    /\ pc = "idle" /\ op = "command"
    /\ Appended = <<"n", "c", "k">>
    /\ Len(stderr) = 1
    /\ stderr[1].via = "__excepthook__" /\ stderr[1].exc = "Exception"

\* C3: calling onTraversalStart while the ack channel is open, or
\* initializeDataFIFO while the data channel is open, raises a fault instead
\* of completing the open (the handle is not replaced).
C3_DoubleOpenFaults ==
    [][/\ (_ackFIFO # None /\ \E c \in BOOLEAN : onTraversalStart(AckPath, c))
          => (pc' = "uncaught" /\ _ackFIFO' = _ackFIFO)
       /\ (_dataFIFO # None /\ \E c \in BOOLEAN : initializeDataFIFO(DataPath, c))
          => (pc' = "uncaught" /\ _dataFIFO' = _dataFIFO)]_vars

\* C4: closeTool with the ack handle absent, and closeDataFIFO with the data
\* handle absent, raise an assertion fault and leave both handles unchanged.
C4_DoubleCloseFaults ==
    [][((_ackFIFO = None /\ closeTool) \/ (_dataFIFO = None /\ closeDataFIFO))
        => /\ pc' = "uncaught"
           /\ exc' = "AssertionError"
           /\ UNCHANGED <<_ackFIFO, _dataFIFO>>]_vars

\* closeTool faulted on a channel that had been opened and closed before
C4_Witness ==
    /\ pc = "uncaught" /\ exc = "AssertionError" /\ op = "closeTool"
    /\ excepthook = "gatkExceptionHook" /\ _ackFIFO = None

\* C5: in every reachable state at most one ack writer and at most one data
\* reader is open in the process.
C5_AtMostOneHandle == OpenWriters <= 1 /\ OpenReaders <= 1

\* C6: whenever the installed failure handler is invoked for an uncaught
\* error, it writes a nack on the ack FIFO and then invokes the default
\* unhandled-error behaviour.
C6_HandlerAlwaysNacks ==
    [][(excepthook = "gatkExceptionHook" /\ ExceptHook)
        => /\ ackPipe' = ackPipe \o <<"n", "c", "k">>
           /\ stderr' = Append(stderr, [via |-> "__excepthook__", exc |-> exc,
                                        written |-> Len(ackPipe')])]_vars

\* the n-th 3-character token written on the ack FIFO
TokenAt(n) == SubSeq(ackPipe, TokenLen * (n - 1) + 1, TokenLen * n)

\* C7: once the failure handler is installed and the ack channel is open, a
\* command that raises an unhandled error leads to the host reading "nck" as
\* the token for that command: with n tokens written before the error, the
\* host eventually completes its (n+1)-th read and that token is "nck".
C7_ErrorLeadsToHostNack ==
    \A n \in 0..MaxTokens :
        (/\ pc = "uncaught" /\ excepthook = "gatkExceptionHook"
         /\ _ackFIFO # None /\ Len(ackPipe) = TokenLen * n)
        ~> (/\ hostRead >= TokenLen * (n + 1)
            /\ TokenAt(n + 1) = <<"n", "c", "k">>)

\* the host has read the nck of a command that raised, after an earlier token
C7_Witness ==
    /\ op = "command" /\ Len(stderr) = 1 /\ stderr[1].exc = "Exception"
    /\ Len(ackPipe) = 2 * TokenLen
    /\ hostRead = Len(ackPipe)
    /\ TokenAt(2) = <<"n", "c", "k">>

\* C8: the failure handler becomes installed only in a step that leaves the
\* ack channel open: sys.excepthook changes only to gatkExceptionHook and
\* only in a step after which _ackFIFO holds an open AckFIFO; an
\* onTraversalStart whose open fails leaves the hook as it was.
C8_HookInstalledAfterOpen ==
    [][(excepthook' # excepthook)
        => /\ excepthook' = "gatkExceptionHook"
           /\ _ackFIFO' # None
           /\ _ackFIFO'.fileWriter = "open"
           /\ OpenWriters' >= 1]_vars

\* the first successful onTraversalStart has just installed the handler
C8_Witness ==
    /\ op = "onTraversalStart" /\ pc = "ran"
    /\ excepthook = "gatkExceptionHook" /\ _ackFIFO # None

\* C9: what has been written to the ack FIFO is a concatenation of whole
\* 3-character tokens, each "ack" or "nck".
C9_WholeTokensOnly ==
    /\ Len(ackPipe) % 3 = 0
    /\ \A n \in 1..(Len(ackPipe) \div 3) :
          SubSeq(ackPipe, 3 * n - 2, 3 * n) \in {<<"a", "c", "k">>, <<"n", "c", "k">>}

\* both tokens have been written, a nck after an ack
C9_Witness ==
    ackPipe = <<"a", "c", "k", "n", "c", "k">>

\* the lines of a character sequence: each maximal piece ending in a newline
RECURSIVE LinesOf(_)
LinesOf(s) ==
    IF \A i \in 1..Len(s) : s[i] # "\n"
    THEN <<>>
    ELSE LET k == CHOOSE i \in 1..Len(s) :
                      s[i] = "\n" /\ \A j \in 1..(i - 1) : s[j] # "\n"
         IN <<SubSeq(s, 1, k)>> \o LinesOf(SubSeq(s, k + 1, Len(s)))

\* the lines written to the data FIFO that the current data channel can read
LinesSinceOpen == LinesOf(wire)

\* C10: on an open data channel, the i-th readDataFIFO call returns the i-th
\* line the host wrote, newline included, for every i up to the number of
\* lines written: N reads of N written lines return them in order.
C10_RoundTrip ==
    _dataFIFO # None =>
        /\ \A i \in 1..Len(sessionReads) :
              i <= Len(LinesSinceOpen) => sessionReads[i] = LinesSinceOpen[i]
        /\ Len(sessionReads) <= Len(LinesSinceOpen) \/ hostClosed

\* two different lines were written and two reads returned them in order
C10_Witness ==
    /\ _dataFIFO # None
    /\ wire = <<"A", "\n", "\n">>
    /\ sessionReads = <<<<"A", "\n">>, <<"\n">>>>

\* C11: readDataFIFO on an open data channel returns normally; when the host
\* has closed its end and nothing unread remains (in the pipe or in the
\* reader) it returns the empty string and leaves both handles, the hook and
\* the pipe as they were; when a complete unread line is available it
\* returns a non-empty line ending in a newline.
C11_ReadLineEofAndLine ==
    [][(_dataFIFO # None /\ readDataFIFO)
        => LET unread == _dataFIFO.buffer \o Avail
               ret    == sessionReads'[Len(sessionReads')]
           IN /\ pc' = "ran"
              /\ Len(sessionReads') = Len(sessionReads) + 1
              /\ (hostClosed /\ unread = <<>>)
                    => /\ ret = <<>>
                       /\ UNCHANGED <<_dataFIFO, _ackFIFO, excepthook, ackPipe>>
                       /\ Avail' = <<>>
              /\ (\E i \in 1..Len(unread) : unread[i] = "\n")
                    => (ret # <<>> /\ ret[Len(ret)] = "\n")]_vars

\* a line was read, then a read at end of stream returned the empty string
C11_Witness ==
    /\ _dataFIFO # None /\ hostClosed
    /\ op = "readDataFIFO" /\ pc = "ran"
    /\ sessionReads = <<<<"A", "\n">>, <<>>>>

\* C12: sendAck, sendNack or closeTool with the ack handle absent, and
\* readDataFIFO or closeDataFIFO with the data handle absent, raise a fault,
\* append nothing to the ack FIFO, take nothing out of the data FIFO and
\* leave both handles unchanged.
C12_AbsentHandleFaults ==
    [][(\/ _ackFIFO = None /\ (sendAck \/ sendNack \/ closeTool)
        \/ _dataFIFO = None /\ (readDataFIFO \/ closeDataFIFO))
        => /\ pc' = "uncaught"
           /\ exc' \in {"AttributeError", "AssertionError"}
           /\ UNCHANGED <<ackPipe, wire, pipePos, _ackFIFO, _dataFIFO>>]_vars

\* sendNack was called with no ack channel and raised
C12_Witness ==
    /\ pc = "uncaught" /\ op = "sendNack" /\ exc = "AttributeError"
    /\ _ackFIFO = None /\ ackPipe = <<>>

\* a step of one of the ack-channel functions / of the data-channel functions
AckOp ==
    \/ \E p \in {AckPath, MissingPath}, c \in BOOLEAN : onTraversalStart(p, c)
    \/ closeTool
    \/ sendAck
    \/ sendNack

DataOp ==
    \/ \E p \in {DataPath, MissingPath}, c \in BOOLEAN : initializeDataFIFO(p, c)
    \/ closeDataFIFO
    \/ readDataFIFO

\* C13: onTraversalStart, closeTool, sendAck and sendNack leave the data
\* handle (with the text its reader holds) and the unread content of the data
\* FIFO unchanged; initializeDataFIFO, closeDataFIFO and readDataFIFO leave
\* the ack handle, the installed hook and the ack FIFO unchanged.
C13_ChannelsIndependent ==
    [][/\ AckOp => (_dataFIFO' = _dataFIFO /\ Avail' = Avail
                    /\ OpenReaders' = OpenReaders)
       /\ DataOp => (_ackFIFO' = _ackFIFO /\ excepthook' = excepthook
                     /\ ackPipe' = ackPipe /\ OpenWriters' = OpenWriters)]_vars

\* the four combinations of the two handles
C13_BothClosed == _ackFIFO = None /\ _dataFIFO = None /\ op = "closeDataFIFO"
C13_AckOnly    == _ackFIFO # None /\ _dataFIFO = None
C13_DataOnly   == _ackFIFO = None /\ _dataFIFO # None /\ excepthook = "default"
C13_BothOpen   == _ackFIFO # None /\ _dataFIFO # None

\* closeTool has closed the ack channel while the data channel stayed open,
\* its reader still holding a line it had taken from the pipe
C13_Witness ==
    /\ op = "closeTool" /\ pc = "ran"
    /\ _ackFIFO = None /\ _dataFIFO # None
    /\ _dataFIFO.buffer = <<"\n">>
    /\ sessionReads = <<<<"A", "\n">>>>

\* C14: onTraversalSuccess, whenever it is called, returns normally and
\* leaves the ack handle, the data handle, the installed hook and the
\* contents of both FIFOs unchanged.
C14_SuccessIsPassThrough ==
    [][onTraversalSuccess
        => /\ pc' = "ran" /\ exc' = ""
           /\ UNCHANGED <<_ackFIFO, _dataFIFO, excepthook, ackPipe, wire, pipePos,
                          leakedWriters, leakedReaders>>]_vars

\* onTraversalSuccess returned with both channels open, the hook installed
\* and a token already written
C14_Witness ==
    /\ op = "onTraversalSuccess" /\ pc = "ran"
    /\ _ackFIFO # None /\ _dataFIFO # None
    /\ excepthook = "gatkExceptionHook"
    /\ ackPipe = <<"a", "c", "k">>

\* C15: an open that fails raises an I/O error and changes nothing: in
\* onTraversalStart the ack handle keeps its value and the hook is not
\* installed by that call; in initializeDataFIFO the data handle keeps its
\* value.
C15_FailedOpenChangesNothing ==
    [][/\ (\E c \in BOOLEAN : onTraversalStart(MissingPath, c))
          => /\ pc' = "uncaught" /\ exc' = "OSError"
             /\ UNCHANGED <<_ackFIFO, excepthook, OpenWriters>>
       /\ (\E c \in BOOLEAN : initializeDataFIFO(MissingPath, c))
          => /\ pc' = "uncaught" /\ exc' = "OSError"
             /\ UNCHANGED <<_dataFIFO, OpenReaders>>]_vars

\* initializeDataFIFO failed to open while a data channel was open, and
\* that channel is still there with the line its reader holds
C15_Witness ==
    /\ pc = "uncaught" /\ exc = "OSError" /\ op = "initializeDataFIFO"
    /\ _dataFIFO # None /\ _dataFIFO.buffer = <<"\n">>

\* the host may send a command now
CommandMayStart ==
    /\ pc \in {"idle", "ran"}
    /\ hostRead = Len(ackPipe)
    /\ Len(ackPipe) < TokenLen * MaxTokens

\* C16: closeTool on an open ack channel returns, closes the writer and
\* clears _ackFIFO; onTraversalStart on a closed ack channel returns with a
\* fresh open channel; after either the opposite call can be made again, so
\* the open/close cycle repeats.  Likewise initializeDataFIFO/closeDataFIFO.
C16_OpenCloseCycle ==
    /\ [][/\ (_ackFIFO # None /\ closeTool)
             => /\ pc' = "ran" /\ _ackFIFO' = None
                /\ OpenWriters' = OpenWriters - 1
          /\ (_ackFIFO = None /\ \E c \in BOOLEAN : onTraversalStart(AckPath, c))
             => /\ pc' = "ran" /\ _ackFIFO' # None
                /\ _ackFIFO'.fileWriter = "open"
                /\ OpenWriters' = OpenWriters + 1
          /\ (_dataFIFO # None /\ closeDataFIFO)
             => /\ pc' = "ran" /\ _dataFIFO' = None
                /\ OpenReaders' = OpenReaders - 1
          /\ (_dataFIFO = None /\ \E c \in BOOLEAN : initializeDataFIFO(DataPath, c))
             => /\ pc' = "ran" /\ _dataFIFO' # None
                /\ _dataFIFO'.fileReader = "open" /\ _dataFIFO'.buffer = <<>>
                /\ OpenReaders' = OpenReaders + 1]_vars
    /\ [](CommandMayStart =>
            /\ _ackFIFO = None => ENABLED onTraversalStart(AckPath, TRUE)
            /\ _ackFIFO # None => ENABLED closeTool
            /\ _dataFIFO = None => ENABLED initializeDataFIFO(DataPath, TRUE)
            /\ _dataFIFO # None => ENABLED closeDataFIFO)

\* closeTool has closed a channel on which a token had been written: no
\* writer is open and the handle is cleared
C16_Witness ==
    /\ op = "closeTool" /\ pc = "ran"
    /\ _ackFIFO = None /\ OpenWriters = 0
    /\ ackPipe # <<>>

\* C17: once sys.excepthook is gatkExceptionHook it stays so in every later
\* state: no step of the module uninstalls it or restores the previous hook.
C17_HookStaysInstalled ==
    [][excepthook = "gatkExceptionHook" => excepthook' = "gatkExceptionHook"]_vars

\* closeTool has returned: the handler is installed and the ack channel closed
C17_Witness ==
    /\ op = "closeTool" /\ pc = "ran"
    /\ excepthook = "gatkExceptionHook"
    /\ _ackFIFO = None /\ OpenWriters = 0

\* C18: with the ack channel open (hence the handler installed), readDataFIFO
\* or closeDataFIFO called with the data handle absent raises without
\* writing, and handling that uncaught fault appends exactly one "nck" for
\* the command and leaves the ack handle open.
C18_DataFaultIsNacked ==
    [][/\ (_ackFIFO # None /\ _dataFIFO = None /\ (readDataFIFO \/ closeDataFIFO))
          => /\ pc' = "uncaught"
             /\ excepthook' = "gatkExceptionHook"
             /\ UNCHANGED <<ackPipe, _ackFIFO>>
       /\ (/\ pc = "uncaught" /\ op \in {"readDataFIFO", "closeDataFIFO"}
           /\ _ackFIFO # None /\ _dataFIFO = None
           /\ ExceptHook)
          => /\ ackPipe' = SubSeq(ackPipe, 1, cmdBase) \o <<"n", "c", "k">>
             /\ _ackFIFO' = _ackFIFO
             /\ OpenWriters' = OpenWriters]_vars

\* readDataFIFO faulted with no data channel and the fault was reported
C18_Witness ==
    /\ pc = "idle" /\ op = "readDataFIFO"
    /\ _ackFIFO # None /\ _dataFIFO = None
    /\ Appended = <<"n", "c", "k">>
    /\ Len(stderr) = 1 /\ stderr[1].exc = "AttributeError"

====
